---- MODULE Spec2Model ----
(***************************************************************************)
(* A model of the OATMEAL interpreter (src/oatmeal.py).                    *)
(*                                                                         *)
(* Texts (programs, function bodies, names, file contents, input lines)    *)
(* are sequences of one-character strings.  The source indexes texts and   *)
(* the tape from 0; the model keeps the source's 0-based offsets in        *)
(* instruction_pointer, data_pointer, readonly_cells and loop_scopes and   *)
(* reads position i of a sequence at index i + 1.                          *)
(*                                                                         *)
(* The interpreter's fields are gathered in a machine record so every      *)
(* handler of the source is an operator from machine to machine; the       *)
(* actions apply execute_instruction to the current machine.  A function   *)
(* call, which the source runs by re-entering its dispatch loop, is a      *)
(* frame pushed on `frames` (the locals saved_program, saved_ip,           *)
(* saved_scopes of call_function) and popped when the body's text ends.    *)
(***************************************************************************)
EXTENDS Integers, Sequences, FiniteSets, TLC

VARIABLES
    program,             \* self.program: the active text
    instruction_pointer, \* self.instruction_pointer
    tape,                \* self.tape
    data_pointer,        \* self.data_pointer
    readonly_cells,      \* self.readonly_cells
    loop_scopes,         \* self.loop_scopes: sequence of <<start, end>>
    functions,           \* self.functions: name -> body
    previous_was_right,  \* self.previous_was_right
    frames,              \* the suspended call_function activations
    stdin,               \* the lines input() has not read yet
    stdout,              \* what print() wrote to standard output
    stderr,              \* what print(..., file=sys.stderr) wrote
    phase,               \* "idle" (constructed / run() returned) or "running"
    runs,                \* how many times run() was entered
    run_program,         \* the argument of the current run()
    run_stdin,           \* standard input as it was when run() was entered
    run_functions,       \* self.functions as it was when run() was entered
    last_char,           \* the character dispatched by the previous step
    max_depth,           \* the deepest call nesting seen in the current run
    constructs           \* the multi-character constructs the current run
                         \* has dispatched

vars == <<program, instruction_pointer, tape, data_pointer, readonly_cells,
          loop_scopes, functions, previous_was_right, frames, stdin, stdout,
          stderr, phase, runs, run_program, run_stdin, run_functions,
          last_char, max_depth, constructs>>

-----------------------------------------------------------------------------
(* Bounds of the model *)

MaxRuns == 2
MaxSuffixLen == 2
MaxTapeLen == 6
MaxCell == 125
MaxOutput == 4
MaxErrors == 3
Fuel == 40

-----------------------------------------------------------------------------
(* Text helpers *)

\* The grave accent, which a TLA+ string cannot hold
Grave == "grave"

Min(S) == CHOOSE x \in S : \A y \in S : x <= y

Max0(a) == IF a < 0 THEN 0 ELSE a

\* text[i] with the source's 0-based index
CharAt(text, i) == text[i + 1]

\* text[from:to] (0-based, to exclusive)
Slice(text, from, to) == SubSeq(text, from + 1, to)

\* str.find(c, from): the first offset >= from holding c, or -1
Find(text, c, from) ==
    LET hits == {i \in from .. (Len(text) - 1) : CharAt(text, i) = c}
    IN  IF hits = {} THEN -1 ELSE Min(hits)

\* list.insert(k, v) with 0 <= k <= len
ListInsert(seq, k, v) ==
    SubSeq(seq, 1, k) \o <<v>> \o SubSeq(seq, k + 1, Len(seq))

\* del list[k]
ListDelete(seq, k) ==
    SubSeq(seq, 1, k) \o SubSeq(seq, k + 2, Len(seq))

-----------------------------------------------------------------------------
(* Cell store and pointer model *)

get_cell_value(s, position) ==
    IF 0 <= position /\ position < Len(s.tape)
    THEN s.tape[position + 1]
    ELSE 0

is_on_tape(s) == 0 <= s.data_pointer /\ s.data_pointer < Len(s.tape)

Writable(s) == is_on_tape(s) /\ s.data_pointer \notin s.readonly_cells

\* a right-move that forgets to wrap
move_data_pointer_right_nowrap(s) ==
    IF Len(s.tape) = 0
    THEN [s EXCEPT !.data_pointer = 0]
    ELSE [s EXCEPT !.data_pointer = @ + 1]

move_data_pointer_right(s) ==
    IF Len(s.tape) = 0
    THEN [s EXCEPT !.data_pointer = 0]
    ELSE LET d == s.data_pointer + 1
         IN  [s EXCEPT !.data_pointer = IF d > Len(s.tape) THEN -1 ELSE d]

\* a left-move that wraps to the last cell instead of the after-last
\* sentinel
move_data_pointer_left_to_last(s) ==
    IF Len(s.tape) = 0
    THEN [s EXCEPT !.data_pointer = 0]
    ELSE LET d == s.data_pointer - 1
         IN  [s EXCEPT !.data_pointer = IF d < -1 THEN Len(s.tape) - 1 ELSE d]

move_data_pointer_left(s) ==
    IF Len(s.tape) = 0
    THEN [s EXCEPT !.data_pointer = 0]
    ELSE LET d == s.data_pointer - 1
         IN  [s EXCEPT !.data_pointer = IF d < -1 THEN Len(s.tape) ELSE d]

increment_cell(s) ==
    IF Writable(s)
    THEN [s EXCEPT !.tape[s.data_pointer + 1] = @ + 1]
    ELSE s

\* a decrement without the test for 0
decrement_cell_below_zero(s) ==
    IF Writable(s)
    THEN [s EXCEPT !.tape[s.data_pointer + 1] = @ - 1]
    ELSE s

decrement_cell(s) ==
    IF Writable(s) /\ s.tape[s.data_pointer + 1] > 0
    THEN [s EXCEPT !.tape[s.data_pointer + 1] = @ - 1]
    ELSE s

\* an insert whose renumbering leaves the cell under the pointer behind
insert_cell_command_off_by_one(s) ==
    IF Len(s.tape) = 0
    THEN [s EXCEPT !.tape = <<0>>, !.data_pointer = 0]
    ELSE IF s.data_pointer = -1
    THEN [s EXCEPT !.tape = ListInsert(s.tape, 0, 0),
                   !.data_pointer = 0,
                   !.readonly_cells = {i + 1 : i \in s.readonly_cells}]
    ELSE IF s.data_pointer >= Len(s.tape)
    THEN [s EXCEPT !.tape = Append(s.tape, 0),
                   !.data_pointer = Len(s.tape)]
    ELSE [s EXCEPT !.tape = ListInsert(s.tape, s.data_pointer, 0),
                   !.readonly_cells =
                       {IF i > s.data_pointer THEN i + 1 ELSE i :
                            i \in s.readonly_cells}]

insert_cell_command(s) ==
    IF Len(s.tape) = 0
    THEN [s EXCEPT !.tape = <<0>>, !.data_pointer = 0]
    ELSE IF s.data_pointer = -1
    THEN [s EXCEPT !.tape = ListInsert(s.tape, 0, 0),
                   !.data_pointer = 0,
                   !.readonly_cells = {i + 1 : i \in s.readonly_cells}]
    ELSE IF s.data_pointer >= Len(s.tape)
    THEN [s EXCEPT !.tape = Append(s.tape, 0),
                   !.data_pointer = Len(s.tape)]
    ELSE [s EXCEPT !.tape = ListInsert(s.tape, s.data_pointer, 0),
                   !.readonly_cells =
                       {IF i >= s.data_pointer THEN i + 1 ELSE i :
                            i \in s.readonly_cells}]

logical_not(s) ==
    IF Writable(s)
    THEN [s EXCEPT !.tape[s.data_pointer + 1] = IF @ = 0 THEN 1 ELSE 0]
    ELSE s

\* a distribute that forgets the read-only check on the other cells
distribute_value_all(s) ==
    IF Writable(s)
    THEN LET value == s.tape[s.data_pointer + 1]
         IN  [s EXCEPT !.tape =
                 [k \in 1 .. Len(s.tape) |->
                    IF k - 1 = s.data_pointer THEN 0 ELSE s.tape[k] + value]]
    ELSE s

\* a distribute that keeps the value in its own cell
distribute_value_keeps_own(s) ==
    IF Writable(s)
    THEN LET value == s.tape[s.data_pointer + 1]
         IN  [s EXCEPT !.tape =
                 [k \in 1 .. Len(s.tape) |->
                    IF k - 1 = s.data_pointer THEN s.tape[k]
                    ELSE IF (k - 1) \notin s.readonly_cells
                         THEN s.tape[k] + value
                         ELSE s.tape[k]]]
    ELSE s

distribute_value(s) ==
    IF Writable(s)
    THEN LET value == s.tape[s.data_pointer + 1]
         IN  [s EXCEPT !.tape =
                 [k \in 1 .. Len(s.tape) |->
                    IF k - 1 = s.data_pointer THEN 0
                    ELSE IF (k - 1) \notin s.readonly_cells
                         THEN s.tape[k] + value
                         ELSE s.tape[k]]]
    ELSE s

\* a delete that leaves the read-only indices where they were
delete_cell_no_renumber(s) ==
    IF Writable(s)
    THEN LET new_tape == ListDelete(s.tape, s.data_pointer)
         IN  [s EXCEPT !.tape = new_tape,
                       !.data_pointer =
                           IF s.data_pointer >= Len(new_tape) /\ Len(new_tape) > 0
                           THEN Len(new_tape) - 1
                           ELSE IF Len(new_tape) = 0 THEN 0 ELSE s.data_pointer]
    ELSE s

delete_cell(s) ==
    IF Writable(s)
    THEN LET new_tape == ListDelete(s.tape, s.data_pointer)
             new_readonly ==
                 {i - 1 : i \in {j \in s.readonly_cells : j > s.data_pointer}}
                 \cup {j \in s.readonly_cells : j < s.data_pointer}
         IN  [s EXCEPT !.tape = new_tape,
                       !.readonly_cells = new_readonly,
                       !.data_pointer =
                           IF s.data_pointer >= Len(new_tape) /\ Len(new_tape) > 0
                           THEN Len(new_tape) - 1
                           ELSE IF Len(new_tape) = 0 THEN 0 ELSE s.data_pointer]
    ELSE s

\* a toggle without the test that the pointer is on the tape
toggle_readonly_off_tape(s) ==
    IF s.data_pointer \in s.readonly_cells
    THEN [s EXCEPT !.readonly_cells = @ \ {s.data_pointer}]
    ELSE [s EXCEPT !.readonly_cells = @ \cup {s.data_pointer}]

toggle_readonly(s) ==
    IF is_on_tape(s)
    THEN IF s.data_pointer \in s.readonly_cells
         THEN [s EXCEPT !.readonly_cells = @ \ {s.data_pointer}]
         ELSE [s EXCEPT !.readonly_cells = @ \cup {s.data_pointer}]
    ELSE s

-----------------------------------------------------------------------------
(* Standard input and output *)

Digits == <<"0", "1", "2", "3", "4", "5", "6", "7", "8", "9">>

Letters == <<"a", "b", "c", "d", "e", "f", "g", "h", "i", "j", "k", "l", "m",
             "n", "o", "p", "q", "r", "s", "t", "u", "v", "w", "x", "y", "z">>

IsDigit(c) == \E i \in 1 .. 10 : Digits[i] = c

DigitVal(c) == (CHOOSE i \in 1 .. 10 : Digits[i] = c) - 1

RECURSIVE DigitsValue(_)
DigitsValue(ds) ==
    IF ds = <<>> THEN 0
    ELSE 10 * DigitsValue(SubSeq(ds, 1, Len(ds) - 1)) + DigitVal(ds[Len(ds)])

AllDigits(ds) == Len(ds) > 0 /\ \A i \in 1 .. Len(ds) : IsDigit(ds[i])

\* int(line): an optional sign and decimal digits; anything else raises
\* ValueError
IntParses(line) ==
    \/ AllDigits(line)
    \/ Len(line) > 1 /\ line[1] \in {"-", "+"} /\ AllDigits(Tail(line))

IntValue(line) ==
    IF line[1] = "-" THEN 0 - DigitsValue(Tail(line))
    ELSE IF line[1] = "+" THEN DigitsValue(Tail(line))
    ELSE DigitsValue(line)

\* ord(c) of the characters input lines are made of
Ord(c) ==
    IF IsDigit(c) THEN 48 + DigitVal(c)
    ELSE IF c = "-" THEN 45
    ELSE IF c = "+" THEN 43
    ELSE IF c = " " THEN 32
    ELSE 96 + (CHOOSE i \in 1 .. 26 : Letters[i] = c)

MaxCodePoint == 1114111

input_number(s) ==
    IF Writable(s)
    THEN IF s.stdin = <<>>
         THEN s                                       \* EOFError
         ELSE LET line == Head(s.stdin)
                  rest == [s EXCEPT !.stdin = Tail(@)]
              IN  IF IntParses(line)
                  THEN [rest EXCEPT !.tape[s.data_pointer + 1] =
                                        Max0(IntValue(line))]
                  ELSE rest                           \* ValueError
    ELSE s

input_unicode(s) ==
    IF Writable(s)
    THEN IF s.stdin = <<>>
         THEN s                                       \* EOFError
         ELSE LET char == Head(s.stdin)
                  rest == [s EXCEPT !.stdin = Tail(@)]
              IN  IF Len(char) > 0
                  THEN [rest EXCEPT !.tape[s.data_pointer + 1] = Ord(char[1])]
                  ELSE rest
    ELSE s

output_number(s) ==
    IF is_on_tape(s)
    THEN [s EXCEPT !.stdout =
              Append(@, [kind |-> "number", value |-> s.tape[s.data_pointer + 1]])]
    ELSE s

output_unicode(s) ==
    IF is_on_tape(s) /\ s.tape[s.data_pointer + 1] <= MaxCodePoint
    THEN [s EXCEPT !.stdout =
              Append(@, [kind |-> "chr", value |-> s.tape[s.data_pointer + 1]])]
    ELSE s

-----------------------------------------------------------------------------
(* Scope tracker, comments and goto *)

RECURSIVE ScanBackslash(_, _, _)
ScanBackslash(text, pos, depth) ==
    IF pos < Len(text) /\ depth > 0
    THEN ScanBackslash(text, pos + 1,
             IF CharAt(text, pos) = "/" THEN depth + 1
             ELSE IF CharAt(text, pos) = "\\" THEN depth - 1
             ELSE depth)
    ELSE IF depth = 0 THEN pos - 1 ELSE -1

find_matching_backslash(text, start_pos) ==
    ScanBackslash(text, start_pos + 1, 1)

RECURSIVE ScanComment(_, _, _)
ScanComment(text, pos, depth) ==
    IF pos < Len(text) /\ depth > 0
    THEN ScanComment(text, pos + 1,
             IF CharAt(text, pos) = "[" THEN depth + 1
             ELSE IF CharAt(text, pos) = "]" THEN depth - 1
             ELSE depth)
    ELSE pos

skip_comment(s) == ScanComment(s.program, s.instruction_pointer + 1, 1)

\* a collection of goto offsets that forgets the nesting depth
RECURSIVE JumpPositionsAnyDepth(_, _, _, _)
JumpPositionsAnyDepth(text, i, loop_end, depth) ==
    IF i >= loop_end THEN <<>>
    ELSE IF CharAt(text, i) = "'"
         THEN <<i>> \o JumpPositionsAnyDepth(text, i + 1, loop_end, depth)
    ELSE JumpPositionsAnyDepth(text, i + 1, loop_end, depth)

\* the loop of goto_command collecting the ' offsets of range(i, loop_end)
RECURSIVE JumpPositions(_, _, _, _)
JumpPositions(text, i, loop_end, depth) ==
    IF i >= loop_end THEN <<>>
    ELSE IF CharAt(text, i) = "/"
         THEN JumpPositions(text, i + 1, loop_end, depth + 1)
    ELSE IF CharAt(text, i) = "\\"
         THEN JumpPositions(text, i + 1, loop_end, depth - 1)
    ELSE IF CharAt(text, i) = "'" /\ depth = 0
         THEN <<i>> \o JumpPositions(text, i + 1, loop_end, depth)
    ELSE JumpPositions(text, i + 1, loop_end, depth)

\* a goto whose exit lands on the closing character instead of past it
goto_command_at_close(s) ==
    IF s.instruction_pointer > 0
       /\ CharAt(s.program, s.instruction_pointer - 1) = "/"
    THEN [s EXCEPT !.instruction_pointer = @ + 1]
    ELSE IF Len(s.loop_scopes) = 0
    THEN [s EXCEPT !.instruction_pointer = @ + 1]
    ELSE LET current_value == get_cell_value(s, s.data_pointer)
             loop_start == s.loop_scopes[Len(s.loop_scopes)][1]
             loop_end == s.loop_scopes[Len(s.loop_scopes)][2]
             jump_positions ==
                 JumpPositions(s.program, loop_start + 1, loop_end, 0)
         IN  IF current_value = 0
             THEN [s EXCEPT !.instruction_pointer = loop_end]
             ELSE IF 1 <= current_value /\ current_value <= Len(jump_positions)
             THEN [s EXCEPT !.instruction_pointer = jump_positions[current_value]]
             ELSE [s EXCEPT !.instruction_pointer = @ + 1]

\* a goto without the escape directly after a scope opening
goto_command_no_escape(s) ==
    IF Len(s.loop_scopes) = 0
    THEN [s EXCEPT !.instruction_pointer = @ + 1]
    ELSE LET current_value == get_cell_value(s, s.data_pointer)
             loop_start == s.loop_scopes[Len(s.loop_scopes)][1]
             loop_end == s.loop_scopes[Len(s.loop_scopes)][2]
             jump_positions ==
                 JumpPositions(s.program, loop_start + 1, loop_end, 0)
         IN  IF current_value = 0
             THEN [s EXCEPT !.instruction_pointer = loop_end + 1]
             ELSE IF 1 <= current_value /\ current_value <= Len(jump_positions)
             THEN [s EXCEPT !.instruction_pointer = jump_positions[current_value]]
             ELSE [s EXCEPT !.instruction_pointer = @ + 1]

goto_command(s) ==
    IF s.instruction_pointer > 0
       /\ CharAt(s.program, s.instruction_pointer - 1) = "/"
    THEN [s EXCEPT !.instruction_pointer = @ + 1]
    ELSE IF Len(s.loop_scopes) = 0
    THEN [s EXCEPT !.instruction_pointer = @ + 1]
    ELSE LET current_value == get_cell_value(s, s.data_pointer)
             loop_start == s.loop_scopes[Len(s.loop_scopes)][1]
             loop_end == s.loop_scopes[Len(s.loop_scopes)][2]
             jump_positions ==
                 JumpPositions(s.program, loop_start + 1, loop_end, 0)
         IN  IF current_value = 0
             THEN [s EXCEPT !.instruction_pointer = loop_end + 1]
             ELSE IF 1 <= current_value /\ current_value <= Len(jump_positions)
             THEN [s EXCEPT !.instruction_pointer = jump_positions[current_value]]
             ELSE [s EXCEPT !.instruction_pointer = @ + 1]

open_scope(s) ==
    LET end_pos == find_matching_backslash(s.program, s.instruction_pointer)
    IN  IF end_pos # -1
        THEN [s EXCEPT !.loop_scopes = Append(@, <<s.instruction_pointer, end_pos>>)]
        ELSE s

\* a closing that pops only the scope it closes
close_scope_if_paired(s) ==
    IF Len(s.loop_scopes) > 0
       /\ s.loop_scopes[Len(s.loop_scopes)][2] = s.instruction_pointer
    THEN [s EXCEPT !.loop_scopes = SubSeq(@, 1, Len(@) - 1)]
    ELSE s

close_scope(s) ==
    IF Len(s.loop_scopes) > 0
    THEN [s EXCEPT !.loop_scopes = SubSeq(@, 1, Len(@) - 1)]
    ELSE s

-----------------------------------------------------------------------------
(* Function table, import and shell *)

NoFunctions == [n \in {} |-> <<>>]

define_function(fns, name, code) ==
    [n \in (DOMAIN fns) \cup {name} |-> IF n = name THEN code ELSE fns[n]]

\* The files open() can read: "L" holds four definition patterns, of which
\* the one with an empty name does not match [^@]+ and the last redefines g;
\* every other name raises FileNotFoundError.
FileExists(filename) == filename = <<"L">>

FileContent(filename) ==
    <<"{", "@", "g", "@", ">", "\"", "^", "@", "}", " ",
      "{", "@", "@", "v", "@", "}",
      "{", "@", "h", "@", ":", "@", "}",
      "{", "@", "g", "@", "^", "^", "@", "}", "{", "@", "k", "@", "^", "@", "x">>

\* re.finditer over content from offset i on, each match registered in
\* order.  The pattern is an opening brace and separator, a non-empty name
\* free of the separator, a separator, a body free of the separator, a
\* separator and a closing brace.
RECURSIVE ImportScan(_, _, _)
ImportScan(content, i, fns) ==
    IF i >= Len(content) THEN fns
    ELSE LET name_end == Find(content, "@", i + 2)
             code_end == IF name_end = -1 THEN -1
                         ELSE Find(content, "@", name_end + 1)
             matches ==
                 /\ CharAt(content, i) = "{"
                 /\ i + 1 < Len(content)
                 /\ CharAt(content, i + 1) = "@"
                 /\ name_end > i + 2
                 /\ code_end # -1
                 /\ code_end + 1 < Len(content)
                 /\ CharAt(content, code_end + 1) = "}"
             registered ==
                 define_function(fns, Slice(content, i + 2, name_end),
                                 Slice(content, name_end + 1, code_end))
         \* the scan goes on past the match, or one character further, with
         \* the offset and the table bound to their values
         IN  CHOOSE result \in
                 {ImportScan(content, next, table) :
                     next \in {IF matches THEN code_end + 2 ELSE i + 1},
                     table \in {IF matches THEN registered ELSE fns}} : TRUE

import_functions(s, filename) ==
    IF FileExists(filename)
    THEN [s EXCEPT !.functions = ImportScan(FileContent(filename), 0, @)]
    ELSE [s EXCEPT !.stderr = Append(@, "import_error")]

\* os.system(command) gives nothing back to the interpreter
execute_shell_command(s, command) == s

\* a call that lets the callee run with the caller's scope stack
call_function_keeps_scopes(s, name, name_end) ==
    IF name \notin DOMAIN s.functions
    THEN [s EXCEPT !.instruction_pointer = name_end + 1,
                   !.previous_was_right = FALSE]
    ELSE [s EXCEPT !.frames = Append(@, [saved_program |-> s.program,
                                         saved_ip |-> s.instruction_pointer,
                                         saved_scopes |-> s.loop_scopes,
                                         name_end |-> name_end]),
                   !.program = s.functions[name],
                   !.instruction_pointer = 0]

\* a call that empties the table entry of the function it enters
call_function_consumes_body(s, name, name_end) ==
    IF name \notin DOMAIN s.functions
    THEN [s EXCEPT !.instruction_pointer = name_end + 1,
                   !.previous_was_right = FALSE]
    ELSE [s EXCEPT !.frames = Append(@, [saved_program |-> s.program,
                                         saved_ip |-> s.instruction_pointer,
                                         saved_scopes |-> s.loop_scopes,
                                         name_end |-> name_end]),
                   !.program = s.functions[name],
                   !.functions = [n \in DOMAIN @ |->
                                     IF n = name THEN <<>> ELSE @[n]],
                   !.instruction_pointer = 0,
                   !.loop_scopes = <<>>]

\* call_function(name) entered from the call construct whose terminator is
\* at name_end: the callee's text becomes the active text
call_function(s, name, name_end) ==
    IF name \notin DOMAIN s.functions
    THEN [s EXCEPT !.instruction_pointer = name_end + 1,
                   !.previous_was_right = FALSE]
    ELSE [s EXCEPT !.frames = Append(@, [saved_program |-> s.program,
                                         saved_ip |-> s.instruction_pointer,
                                         saved_scopes |-> s.loop_scopes,
                                         name_end |-> name_end]),
                   !.program = s.functions[name],
                   !.instruction_pointer = 0,
                   !.loop_scopes = <<>>]

\* a return that leaves the instruction pointer on the call construct
return_from_call_to_call(s) ==
    LET frame == s.frames[Len(s.frames)]
    IN  [s EXCEPT !.frames = SubSeq(@, 1, Len(@) - 1),
                  !.program = frame.saved_program,
                  !.loop_scopes = frame.saved_scopes,
                  !.instruction_pointer = frame.saved_ip,
                  !.previous_was_right = FALSE]

\* the end of call_function's loop and the rest of the call construct's
\* handler
return_from_call(s) ==
    LET frame == s.frames[Len(s.frames)]
    IN  [s EXCEPT !.frames = SubSeq(@, 1, Len(@) - 1),
                  !.program = frame.saved_program,
                  !.loop_scopes = frame.saved_scopes,
                  !.instruction_pointer = frame.name_end + 1,
                  !.previous_was_right = FALSE]

-----------------------------------------------------------------------------
(* Dispatch *)

CurrentChar(s) == CharAt(s.program, s.instruction_pointer)

Advance(s) == [s EXCEPT !.instruction_pointer = @ + 1]

NotRight(s) == [s EXCEPT !.previous_was_right = FALSE]

dispatch_comment(s) ==
    NotRight([s EXCEPT !.instruction_pointer = skip_comment(s)])

\* the conditions under which "{" opens a complete definition
IsDefinition(s) ==
    LET ip == s.instruction_pointer
        name_end == Find(s.program, "@", ip + 2)
    IN  /\ ip + 1 < Len(s.program)
        /\ CharAt(s.program, ip + 1) = "@"
        /\ name_end # -1
        /\ Find(s.program, "@", name_end + 1) # -1

\* a definition whose body runs to the separator that the closing brace
\* follows, so that a body can hold the separator
dispatch_brace_to_closing(s) ==
    LET ip == s.instruction_pointer
        name_end == Find(s.program, "@", ip + 2)
        closes == {c \in (name_end + 1) .. (Len(s.program) - 2) :
                      CharAt(s.program, c) = "@" /\ CharAt(s.program, c + 1) = "}"}
    IN  IF IsDefinition(s) /\ closes # {}
        THEN NotRight([s EXCEPT
                 !.functions = define_function(@,
                                   Slice(s.program, ip + 2, name_end),
                                   Slice(s.program, name_end + 1, Min(closes))),
                 !.instruction_pointer = Min(closes) + 2])
        ELSE Advance(s)

dispatch_brace(s) ==
    LET ip == s.instruction_pointer
        name_end == Find(s.program, "@", ip + 2)
        code_end == Find(s.program, "@", name_end + 1)
    IN  IF IsDefinition(s)
        THEN NotRight([s EXCEPT
                 !.functions = define_function(@,
                                   Slice(s.program, ip + 2, name_end),
                                   Slice(s.program, name_end + 1, code_end)),
                 !.instruction_pointer = code_end + 2])
        ELSE Advance(s)

\* the three constructs "=" can open
NextIs(s, c) ==
    /\ s.instruction_pointer + 1 < Len(s.program)
    /\ CharAt(s.program, s.instruction_pointer + 1) = c

ShellLead(s) ==
    /\ NextIs(s, "$")
    /\ s.instruction_pointer + 2 < Len(s.program)
    /\ CharAt(s.program, s.instruction_pointer + 2) = "$"

IsCall(s) ==
    NextIs(s, "@") /\ Find(s.program, "=", s.instruction_pointer + 2) # -1

IsShell(s) ==
    ShellLead(s) /\ Find(s.program, "=", s.instruction_pointer + 3) # -1

IsImport(s) ==
    /\ NextIs(s, "$")
    /\ ~ShellLead(s)
    /\ Find(s.program, "=", s.instruction_pointer + 2) # -1

CallName(s) ==
    Slice(s.program, s.instruction_pointer + 2,
          Find(s.program, "=", s.instruction_pointer + 2))

dispatch_equals(s) ==
    LET ip == s.instruction_pointer
        text == s.program
        name_end == Find(text, "=", ip + 2)
        cmd_end == Find(text, "=", ip + 3)
    IN  IF IsCall(s)
        THEN call_function(s, CallName(s), name_end)
        ELSE IF IsShell(s)
        THEN NotRight([execute_shell_command(s, Slice(text, ip + 3, cmd_end))
                          EXCEPT !.instruction_pointer = cmd_end + 1])
        ELSE IF IsImport(s)
        THEN NotRight([import_functions(s, Slice(text, ip + 2, name_end))
                          EXCEPT !.instruction_pointer = name_end + 1])
        ELSE NotRight(Advance(s))

dispatch_insert(s) ==
    IF s.previous_was_right
    THEN insert_cell_command(s)
    ELSE [s EXCEPT !.stderr = Append(@, "insert_error")]

\* an unknown character that ends the dispatch loop of the active text
unknown_character_halts(s) ==
    NotRight([s EXCEPT !.instruction_pointer = Len(s.program) - 1])

\* the last branch of the instruction switch
unknown_character(s) == NotRight(s)

execute_instruction(s) ==
    LET char == CurrentChar(s)
    IN  CASE char = "[" -> dispatch_comment(s)
          [] char = "{" -> dispatch_brace(s)
          [] char = "=" -> dispatch_equals(s)
          [] char = ">" ->
                Advance([move_data_pointer_right(s) EXCEPT !.previous_was_right = TRUE])
          [] char = "<" -> Advance(NotRight(move_data_pointer_left(s)))
          [] char = "^" -> Advance(NotRight(increment_cell(s)))
          [] char = "v" -> Advance(NotRight(decrement_cell(s)))
          [] char = "\"" -> Advance(NotRight(dispatch_insert(s)))
          [] char = "'" -> NotRight(goto_command(s))
          [] char = "/" -> Advance(NotRight(open_scope(s)))
          [] char = "\\" -> Advance(NotRight(close_scope(s)))
          [] char = "!" -> Advance(NotRight(logical_not(s)))
          [] char = "&" -> Advance(NotRight(distribute_value(s)))
          [] char = ":" -> Advance(NotRight(delete_cell(s)))
          [] char = "~" -> Advance(NotRight(input_number(s)))
          [] char = Grave -> Advance(NotRight(input_unicode(s)))
          [] char = "_" -> Advance(NotRight(output_number(s)))
          [] char = "-" -> Advance(NotRight(output_unicode(s)))
          [] char = "%" -> Advance(NotRight(toggle_readonly(s)))
          [] OTHER -> Advance(unknown_character(s))

\* run(program) up to its loop: everything but the function table is reset
\* a run() that starts from an empty function table
run_forgets_functions(s, text) ==
    [s EXCEPT !.program = text,
              !.instruction_pointer = 0,
              !.previous_was_right = FALSE,
              !.tape = <<>>,
              !.data_pointer = 0,
              !.readonly_cells = {},
              !.loop_scopes = <<>>,
              !.functions = [n \in {} |-> <<>>]]

run(s, text) ==
    [s EXCEPT !.program = text,
              !.instruction_pointer = 0,
              !.previous_was_right = FALSE,
              !.tape = <<>>,
              !.data_pointer = 0,
              !.readonly_cells = {},
              !.loop_scopes = <<>>]

\* the print() that ends run()
finish_run(s) == [s EXCEPT !.stdout = Append(@, [kind |-> "newline", value |-> 0])]

AtEnd(s) == s.instruction_pointer >= Len(s.program)

-----------------------------------------------------------------------------
(* The programs and inputs the interpreter is run on *)

CommentGotoProgram ==
    <<"/", ">", "\"", "^", "[", "'", "]", "'", "\\">>

CommentNestedProgram ==
    <<"[", "^", "[", "v", "]", "^", "]", ">", "\"", "^", "_">>

CommentOpenProgram ==
    <<">", "\"", "[", "^", "_">>

CommentScopeEndProgram ==
    <<"/", "[", "\\", "x", "]", ">", "\"", "'">>

EscapeZeroProgram ==
    <<"/", "'", "\\", ">", "\"", "_">>

GotoExitProgram ==
    <<"/", ">", "\"", "'", "^", "\\", "_">>

GotoSecondProgram ==
    <<">", "\"", "^", "^", "/", ".", "'", "v", "'", "^", "'", "\\", "_">>

GotoOutOfRangeProgram ==
    <<">", "\"", "^", "^", "^", "/", ".", "'", "v", "'", "\\", "_">>

LoopProgram ==
    <<">", "\"", "^", "/", "'", "v", "'", "\\", "_">>

GrowingLoopProgram ==
    <<">", "\"", "^", "/", "'", ">", "\"", "<", "<", "'", "\\">>

NestedLoopProgram ==
    <<">", "\"", "^", "^", "/", ".", "/", "'", "v", "'", "\\", "'", ".",
      "'", "\\", "_">>

NestedScopeProgram ==
    <<">", "\"", "^", "^", "/", ".", "/", ".", "'", "\\", "'", ".", "'",
      "\\", "_">>

GotoOffTapeProgram ==
    <<">", "\"", "^", ">", "/", ".", "'", "^", "\\", "<", "_">>

UnmatchedOpenProgram ==
    <<">", "\"", "^", "/", "'", "_">>

UnmatchedCloseProgram ==
    <<"\\", ">", "\"", "'", "^", "_">>

MisnestedProgram ==
    <<"/", "/", "\\", ">", "\"", "^", "'", "\\", "'", "\\", "_">>

CallProgram ==
    <<"{", "@", "f", "@", ">", "\"", "^", "@", "}", "=", "@", "f", "=",
      "_", "=", "@", "f", "=", "_">>

UnknownCallProgram ==
    <<">", "=", "@", "q", "=", "\"", "_">>

InsertInBodyProgram ==
    <<"{", "@", "f", "@", "\"", "^", "@", "}", ">", "=", "@", "f", "=",
      "_">>

BraceInsertProgram ==
    <<">", "{", "\"", "^", "_">>

NestProgram ==
    <<"{", "@", "f", "@", ">", "\"", "^", "@", "}", "{", "@", "g", "@",
      "=", "@", "f", "=", "@", "}", "=", "@", "g", "=", "_">>

NestCalledProgram ==
    <<"{", "@", "f", "@", ">", "\"", "^", "@", "}", "{", "@", "g", "@",
      "=", "@", "f", "=", "@", "}", "=", "=", "@", "g", "=", "_">>

RecursionProgram ==
    <<"{", "@", "r", "@", ">", "\"", "=", "@", "r", "=", "@", "}", "=",
      "@", "r", "=", "_">>

OpenDefinitionProgram ==
    <<"{", "@", "f", ">", "\"", "^", "_">>

OpenBodyProgram ==
    <<"{", "@", "f", "@", ">", "\"", "^", "_">>

EmptyNameProgram ==
    <<"{", "@", "@", ">", "\"", "^", "@", "}", "=", "@", "=", "_">>

RedefineProgram ==
    <<"{", "@", "f", "@", ">", "\"", "@", "}", "{", "@", "f", "@", ">",
      "\"", "^", "^", "@", "}", "=", "@", "f", "=", "_">>

ScopeInBodyProgram ==
    <<"{", "@", "f", "@", "/", "'", "v", "'", "\\", "@", "}", ">", "\"",
      "^", "/", "=", "@", "f", "=", "_", "'", "\\">>

CallInLoopProgram ==
    <<"{", "@", "f", "@", "v", "@", "}", ">", "\"", "^", "/", "'", "=",
      "@", "f", "=", "'", "\\", "_">>

GotoInBodyProgram ==
    <<"{", "@", "f", "@", "'", "^", ">", "@", "}", ">", "\"", "/", "=",
      "@", "f", "=", "\"", "\\", "_">>

ImportProgram ==
    <<"=", "$", "L", "=", "=", "@", "g", "=", "_", "=", "@", "h", "=", "=",
      "@", "k", "=", "_">>

MissingFileProgram ==
    <<"=", "$", "M", "=", "=", "@", "g", "=", ">", "\"", "_">>

OpenImportProgram ==
    <<">", "\"", "=", "$", "L">>

ShellProgram ==
    <<">", "\"", "^", "=", "$", "$", "l", "s", "=", "_">>

OpenShellProgram ==
    <<">", "=", "$", "$", "x", "\"">>

EqualsProgram ==
    <<">", "=", "\"", "=", "x", "=">>

InputNumberProgram ==
    <<"~", ">", "\"", "~", "_", "~", "%", "~", "_">>

InputUnicodeProgram ==
    <<Grave, ">", "\"", Grave, "-", Grave, "%", Grave, "-">>

NoOpProgram ==
    <<">", "\"", ";", "?", ".", ">", "\"", " ", "^", "_", "-">>

SpacedInsertProgram ==
    <<">", " ", "\"", ">", "\"", "_">>

SpacedEscapeProgram ==
    <<">", "\"", "^", "/", " ", "'", "v", "'", "\\", "_">>

CommentInsertProgram ==
    <<">", "[", "x", "]", "\"", ">", "\"", "^", "!", "!", "_", "&">>

PointerInBodyProgram ==
    <<"{", "@", "w", "@", ">", ">", ":", ">", "^", "@", "}", ">", "\"",
      "^", "=", "@", "w", "=", "_">>

InsertAtReadonlyProgram ==
    <<">", "\"", "^", "%", "<", ">", "\"", "_", "^", "_">>

ToggleOffProgram ==
    <<">", "\"", "^", "^", "%", "v", "%", "v", "_", "%", "!", "%", "!",
      "_">>

ReadonlyProgram ==
    <<">", "\"", "^", "%", "^", "v", "!", "&", ":", ">", "\"", "%", "^",
      "_", "<", "_">>

\* [2, 1, 1] with cell 1 read-only, distributed from cell 0
DistributeProgram ==
    <<">", "\"", "^", "^", ">", "\"", "^", "%", ">", "\"", "^", "<", "<",
      "&", "_">>

\* calls of functions the text does not define
CallEarlierProgram ==
    <<"=", "@", "f", "=", "_", "=", "@", "h", "=", "_">>

RedefineLaterProgram ==
    <<"{", "@", "f", "@", ">", "\"", "^", "^", "^", "@", "}", "=", "@", "f",
      "=", "_">>

\* a goto after a scope that an earlier goto has left
StaleScopeProgram ==
    <<">", "\"", "/", ".", "'", "\\", "^", "'", "_">>

\* a number read into a cell holding 2, then decremented
NegativeInputProgram ==
    <<">", "\"", "^", "^", "~", "v", "_">>

\* a function whose body imports a file that defines the same name
ImportInBodyProgram ==
    <<"{", "@", "g", "@", "=", "$", "L", "=", "@", "}", "=", "@", "g", "=",
      "_", ">", "\"", "=", "@", "g", "=", "_">>

\* a closing character met with a scope on top that a goto has left
PopStaleProgram ==
    <<"/", ">", "\"", "/", ".", "'", "\\", ".", "\\", "_">>

\* a read-only cell released, deleted, and the cell that took its place protected
ToggleDeleteProgram ==
    <<">", "\"", "^", "%", ">", "\"", "<", ":", "%", ":", "%", "_">>

CuratedPrograms ==
    {ToggleDeleteProgram,
     PopStaleProgram,
     ImportInBodyProgram,
     NegativeInputProgram,
     StaleScopeProgram,
     RedefineLaterProgram,
     CallEarlierProgram,
     DistributeProgram,
     CommentGotoProgram,
     CommentNestedProgram,
     CommentOpenProgram,
     CommentScopeEndProgram,
     EscapeZeroProgram,
     GotoExitProgram,
     GotoSecondProgram,
     GotoOutOfRangeProgram,
     LoopProgram,
     GrowingLoopProgram,
     NestedLoopProgram,
     NestedScopeProgram,
     GotoOffTapeProgram,
     UnmatchedOpenProgram,
     UnmatchedCloseProgram,
     MisnestedProgram,
     CallProgram,
     UnknownCallProgram,
     InsertInBodyProgram,
     BraceInsertProgram,
     NestProgram,
     NestCalledProgram,
     RecursionProgram,
     OpenDefinitionProgram,
     OpenBodyProgram,
     EmptyNameProgram,
     RedefineProgram,
     ScopeInBodyProgram,
     CallInLoopProgram,
     GotoInBodyProgram,
     ImportProgram,
     MissingFileProgram,
     OpenImportProgram,
     ShellProgram,
     OpenShellProgram,
     EqualsProgram,
     InputNumberProgram,
     InputUnicodeProgram,
     NoOpProgram,
     SpacedInsertProgram,
     SpacedEscapeProgram,
     CommentInsertProgram,
     PointerInBodyProgram,
     InsertAtReadonlyProgram,
     ToggleOffProgram,
     ReadonlyProgram}

TapeOps == {">", "<", "^", "\"", ":", "%", "&"}

\* [3] with the pointer on the cell; [2, 1] with cell 1 read-only
TapePrefixes ==
    {<<>>,
     <<">", "\"", "^", "^", "^">>,
     <<">", "\"", "^", "^", ">", "\"", "^", "%">>}

Suffixes == UNION {[1 .. k -> TapeOps] : k \in 0 .. MaxSuffixLen}

TapePrograms == {p \o w : p \in TapePrefixes, w \in Suffixes}

Programs == CuratedPrograms \cup TapePrograms

\* the texts given to the runs that follow the first one on the same
\* interpreter
LaterPrograms == {CallEarlierProgram, RedefineLaterProgram, ImportProgram}

ProgramsOfRun(n) == IF n = 0 THEN Programs ELSE LaterPrograms

ReadsInput(text) == \E i \in 1 .. Len(text) : text[i] \in {"~", Grave}

Inputs ==
    {<<>>,
     << <<"7">> >>,
     << <<"-", "3">>, <<"x">> >>,
     << <<"x">>, <<"1", "2">>, <<"+", "4">> >>,
     << <<>>, <<"5">>, <<"a", "b">> >>}

InputsFor(text) == IF ReadsInput(text) THEN Inputs ELSE {<<>>}

-----------------------------------------------------------------------------
(* The state machine *)

Machine ==
    [program |-> program,
     instruction_pointer |-> instruction_pointer,
     tape |-> tape,
     data_pointer |-> data_pointer,
     readonly_cells |-> readonly_cells,
     loop_scopes |-> loop_scopes,
     functions |-> functions,
     previous_was_right |-> previous_was_right,
     frames |-> frames,
     stdin |-> stdin,
     stdout |-> stdout,
     stderr |-> stderr]

Apply(s) ==
    /\ program' = s.program
    /\ instruction_pointer' = s.instruction_pointer
    /\ tape' = s.tape
    /\ data_pointer' = s.data_pointer
    /\ readonly_cells' = s.readonly_cells
    /\ loop_scopes' = s.loop_scopes
    /\ functions' = s.functions
    /\ previous_was_right' = s.previous_was_right
    /\ frames' = s.frames
    /\ stdin' = s.stdin
    /\ stdout' = s.stdout
    /\ stderr' = s.stderr

\* __init__
Constructed ==
    [program |-> <<>>,
     instruction_pointer |-> 0,
     tape |-> <<>>,
     data_pointer |-> 0,
     readonly_cells |-> {},
     loop_scopes |-> <<>>,
     functions |-> NoFunctions,
     previous_was_right |-> FALSE,
     frames |-> <<>>,
     stdin |-> <<>>,
     stdout |-> <<>>,
     stderr |-> <<>>]

Init ==
    /\ program = Constructed.program
    /\ instruction_pointer = Constructed.instruction_pointer
    /\ tape = Constructed.tape
    /\ data_pointer = Constructed.data_pointer
    /\ readonly_cells = Constructed.readonly_cells
    /\ loop_scopes = Constructed.loop_scopes
    /\ functions = Constructed.functions
    /\ previous_was_right = Constructed.previous_was_right
    /\ frames = Constructed.frames
    /\ stdin = Constructed.stdin
    /\ stdout = Constructed.stdout
    /\ stderr = Constructed.stderr
    /\ phase = "idle"
    /\ runs = 0
    /\ run_program = <<>>
    /\ run_stdin = <<>>
    /\ run_functions = NoFunctions
    /\ last_char = ""
    /\ max_depth = 0
    /\ constructs = {}

\* the model stops a run whose tape, cells, output or diagnostics outgrow
\* the bounds
InBounds ==
    /\ Len(tape) <= MaxTapeLen
    /\ Len(stdout) <= MaxOutput
    /\ Len(stderr) <= MaxErrors
    /\ \A i \in 1 .. Len(tape) : tape[i] <= MaxCell

\* the multi-character construct, if any, that the instruction at the
\* instruction pointer opens: the text it lies in, the call depth, and the
\* offsets of its first and last character (an unterminated comment runs to
\* the end of the text)
Span(s, kind, close) ==
    {[kind |-> kind, text |-> s.program, depth |-> Len(s.frames),
      open |-> s.instruction_pointer, close |-> close]}

ConstructAt(s) ==
    LET ip == s.instruction_pointer
        char == CurrentChar(s)
        pos == skip_comment(s)
    IN  IF char = "["
        THEN Span(s, "comment",
                  IF pos - 1 > ip /\ CharAt(s.program, pos - 1) = "]"
                  THEN pos - 1 ELSE pos)
        ELSE IF char = "{" /\ IsDefinition(s)
        THEN Span(s, "definition",
                  Find(s.program, "@", Find(s.program, "@", ip + 2) + 1) + 1)
        ELSE IF char = "=" /\ IsCall(s)
        THEN Span(s, "call", Find(s.program, "=", ip + 2))
        ELSE IF char = "=" /\ IsShell(s)
        THEN Span(s, "shell", Find(s.program, "=", ip + 3))
        ELSE IF char = "=" /\ IsImport(s)
        THEN Span(s, "import", Find(s.program, "=", ip + 2))
        ELSE {}

Dispatching(chars) ==
    /\ phase = "running"
    /\ ~AtEnd(Machine)
    /\ InBounds
    /\ CurrentChar(Machine) \in chars

\* one pass of the loop of run() or call_function(): execute_instruction()
Step ==
    /\ Apply(execute_instruction(Machine))
    /\ last_char' = CurrentChar(Machine)
    /\ max_depth' = IF Len(frames') > max_depth THEN Len(frames') ELSE max_depth
    /\ constructs' = constructs \cup ConstructAt(Machine)
    /\ UNCHANGED <<phase, runs, run_program, run_stdin, run_functions>>

Instructions ==
    {"[", "{", "=", ">", "<", "^", "v", "\"", "'", "/", "\\", "!", "&", ":",
     "~", Grave, "_", "-", "%"}

Characters ==
    Instructions \cup {";", "?", ".", " ", "@", "$", "]", "}", "x", "f", "g",
                       "h", "k", "q", "r", "l", "s", "L", "M"}

Run ==
    /\ phase = "idle"
    /\ runs < MaxRuns
    /\ \E text \in ProgramsOfRun(runs) : \E input \in InputsFor(text) :
          /\ Apply([run(Machine, text) EXCEPT !.stdin = input,
                                              !.stdout = <<>>,
                                              !.stderr = <<>>])
          /\ run_program' = text
          /\ run_stdin' = input
    /\ run_functions' = functions
    /\ phase' = "running"
    /\ runs' = runs + 1
    /\ last_char' = ""
    /\ max_depth' = 0
    /\ constructs' = {}

Finish ==
    /\ phase = "running"
    /\ AtEnd(Machine)
    /\ frames = <<>>
    /\ Apply(finish_run(Machine))
    /\ phase' = "idle"
    /\ UNCHANGED <<runs, run_program, run_stdin, run_functions, last_char,
                   max_depth, constructs>>

Return ==
    /\ phase = "running"
    /\ AtEnd(Machine)
    /\ frames # <<>>
    /\ Apply(return_from_call(Machine))
    /\ UNCHANGED <<phase, runs, run_program, run_stdin, run_functions,
                   last_char, max_depth, constructs>>

Comment == Dispatching({"["}) /\ Step

DefineFunction == Dispatching({"{"}) /\ IsDefinition(Machine) /\ Step

Brace == Dispatching({"{"}) /\ ~IsDefinition(Machine) /\ Step

CallFunction ==
    /\ Dispatching({"="})
    /\ IsCall(Machine)
    /\ CallName(Machine) \in DOMAIN functions
    /\ Step

CallUnknown ==
    /\ Dispatching({"="})
    /\ IsCall(Machine)
    /\ CallName(Machine) \notin DOMAIN functions
    /\ Step

ShellCommand == Dispatching({"="}) /\ IsShell(Machine) /\ Step

Import == Dispatching({"="}) /\ IsImport(Machine) /\ Step

Equals ==
    /\ Dispatching({"="})
    /\ ~IsCall(Machine) /\ ~IsShell(Machine) /\ ~IsImport(Machine)
    /\ Step

MoveRight == Dispatching({">"}) /\ Step

MoveLeft == Dispatching({"<"}) /\ Step

Increment == Dispatching({"^"}) /\ Step

Decrement == Dispatching({"v"}) /\ Step

Insert == Dispatching({"\""}) /\ Step

Goto == Dispatching({"'"}) /\ Step

OpenScope == Dispatching({"/"}) /\ Step

CloseScope == Dispatching({"\\"}) /\ Step

LogicalNot == Dispatching({"!"}) /\ Step

Distribute == Dispatching({"&"}) /\ Step

Delete == Dispatching({":"}) /\ Step

InputNumber == Dispatching({"~"}) /\ Step

InputUnicode == Dispatching({Grave}) /\ Step

OutputNumber == Dispatching({"_"}) /\ Step

OutputUnicode == Dispatching({"-"}) /\ Step

ToggleReadonly == Dispatching({"%"}) /\ Step

NoOp == Dispatching(Characters \ Instructions) /\ Step

Next ==
    \/ Run
    \/ Finish
    \/ Return
    \/ Comment
    \/ DefineFunction
    \/ Brace
    \/ CallFunction
    \/ CallUnknown
    \/ ShellCommand
    \/ Import
    \/ Equals
    \/ MoveRight
    \/ MoveLeft
    \/ Increment
    \/ Decrement
    \/ Insert
    \/ Goto
    \/ OpenScope
    \/ CloseScope
    \/ LogicalNot
    \/ Distribute
    \/ Delete
    \/ InputNumber
    \/ InputUnicode
    \/ OutputNumber
    \/ OutputUnicode
    \/ ToggleReadonly
    \/ NoOp

Spec == Init /\ [][Next]_vars

\* the loops of run() and call_function() go on while the instruction
\* pointer is inside the active text, and run() returns when its loop ends
LiveSpec == Spec /\ WF_vars(phase = "running" /\ Next)

-----------------------------------------------------------------------------
(* Vocabulary of the properties *)

Running == phase = "running"

Finished == phase = "idle" /\ runs > 0

OnTape == 0 <= data_pointer /\ data_pointer < Len(tape)

\* the value a goto reads: the cell under the pointer, 0 off the tape
CellValue == IF OnTape THEN tape[data_pointer + 1] ELSE 0

TopScope == loop_scopes[Len(loop_scopes)]

\* the goto at the instruction pointer directly follows a scope opening
GotoEscape ==
    instruction_pointer > 0 /\ CharAt(program, instruction_pointer - 1) = "/"

\* the step about to be taken is a call of a known function
CallStep ==
    /\ Dispatching({"="})
    /\ IsCall(Machine)
    /\ CallName(Machine) \in DOMAIN functions

\* the step about to be taken ends a function body
ReturnStep == Running /\ AtEnd(Machine) /\ frames # <<>>

-----------------------------------------------------------------------------
(* C1: after every dispatched instruction, inside a function call or not,   *)
(* -1 <= data_pointer <= len(tape), and the data pointer is 0 whenever the  *)
(* tape is empty.                                                           *)
PointerInRange ==
    /\ -1 <= data_pointer
    /\ data_pointer <= Len(tape)
    /\ (Len(tape) = 0 => data_pointer = 0)

\* inside a function body a right-move has wrapped from the after-last
\* sentinel to the before-first one
PointerWrappedInCall ==
    /\ frames # <<>>
    /\ last_char = ">"
    /\ Len(tape) > 0
    /\ data_pointer = -1

-----------------------------------------------------------------------------
(* C2: while a cell is read-only no instruction removes it or changes its   *)
(* value, and the protection follows the cell through inserts and deletes   *)
(* of other cells; once the flag is toggled off the next mutation of that   *)
(* cell takes effect.                                                       *)

\* old cell i is cell j after the step, with its value, and is still
\* read-only unless this step is the toggle on that very cell
KeptAs(i, j) ==
    /\ 0 <= j /\ j < Len(tape')
    /\ tape'[j + 1] = tape[i + 1]
    /\ \/ j \in readonly_cells'
       \/ Dispatching({"%"}) /\ data_pointer = i

ReadOnlyCellsKept ==
    IF Len(tape') = Len(tape) + 1
    THEN \E k \in 0 .. Len(tape) :
            /\ tape' = ListInsert(tape, k, 0)
            /\ \A i \in readonly_cells : KeptAs(i, IF i >= k THEN i + 1 ELSE i)
    ELSE IF Len(tape') = Len(tape) - 1
    THEN \E k \in (0 .. (Len(tape) - 1)) \ readonly_cells :
            /\ tape' = ListDelete(tape, k)
            /\ \A i \in readonly_cells : KeptAs(i, IF i > k THEN i - 1 ELSE i)
    ELSE Len(tape') = Len(tape) /\ \A i \in readonly_cells : KeptAs(i, i)

\* the previous instruction toggled the flag of the cell under the pointer
\* off
JustToggledOff ==
    last_char = "%" /\ OnTape /\ data_pointer \notin readonly_cells

MutationTakesEffect ==
    LET old == tape[data_pointer + 1]
        new == tape'[data_pointer + 1]
    IN  /\ Dispatching({"^"}) => new = old + 1
        /\ Dispatching({"v"}) => new = Max0(old - 1)
        /\ Dispatching({"!"}) => new = (IF old = 0 THEN 1 ELSE 0)
        /\ Dispatching({"&"}) => new = 0
        /\ Dispatching({":"}) => tape' = ListDelete(tape, data_pointer)

ReadOnlyProtected ==
    [][(Running /\ runs' = runs) =>
          /\ ReadOnlyCellsKept
          /\ (JustToggledOff => MutationTakesEffect)]_vars

\* a delete was dispatched on a read-only cell, which is still there
DeleteRefusedOnReadOnly ==
    /\ Running
    /\ last_char = ":"
    /\ data_pointer \in readonly_cells

-----------------------------------------------------------------------------
(* C3: no character strictly between a dispatched "[" and its matching "]" *)
(* is ever dispatched: the instruction pointer never lies inside a comment  *)
(* the run has skipped.                                                     *)
NeverInsideComment ==
    Running =>
        \A c \in constructs :
            ~ /\ c.kind = "comment"
              /\ c.depth = Len(frames)
              /\ c.text = program
              /\ c.open < instruction_pointer
              /\ instruction_pointer < c.close

-----------------------------------------------------------------------------
(* C4: a goto dispatched with a non-empty scope stack and cell value 0      *)
(* (0 also when the data pointer is off the tape) sets the instruction      *)
(* pointer to end + 1 of the innermost scope.                               *)

\* as stated: for every such goto
GotoZeroExits ==
    [][(Dispatching({"'"}) /\ loop_scopes # <<>> /\ CellValue = 0) =>
          instruction_pointer' = TopScope[2] + 1]_vars

\* amended: for every such goto that does not directly follow a scope
\* opening character
GotoZeroExitsUnlessEscape ==
    [][(Dispatching({"'"}) /\ loop_scopes # <<>> /\ CellValue = 0
           /\ ~GotoEscape) =>
          instruction_pointer' = TopScope[2] + 1]_vars

\* a goto read 0 off the tape and left the innermost scope
GotoExitedOffTape ==
    /\ Running
    /\ last_char = "'"
    /\ Len(tape) > 0
    /\ ~OnTape
    /\ loop_scopes # <<>>
    /\ instruction_pointer = TopScope[2] + 1

-----------------------------------------------------------------------------
(* C5: a goto dispatched with a non-empty scope stack and cell value v > 0, *)
(* not in the escape case, jumps to the v-th goto character (in source      *)
(* order) lying strictly inside the innermost scope and outside any scope   *)
(* nested in it, or advances by 1 when there is no v-th one; tape, data     *)
(* pointer, read-only set and scope stack are unchanged.                    *)

Count(text, c, from, to) ==
    Cardinality({j \in from .. to : CharAt(text, j) = c})

\* offsets of the goto characters of text strictly between start and end at
\* nesting depth 0: as many closings as openings lie between start and them
GotoPoints(text, start, end) ==
    {i \in (start + 1) .. (end - 1) :
        /\ CharAt(text, i) = "'"
        /\ Count(text, "/", start + 1, i - 1) = Count(text, "\\", start + 1, i - 1)}

\* the v-th smallest element of a set of numbers
Nth(S, v) == CHOOSE x \in S : Cardinality({y \in S : y <= x}) = v

GotoJumpsToNth ==
    [][(Dispatching({"'"}) /\ loop_scopes # <<>> /\ CellValue > 0
           /\ ~GotoEscape) =>
          LET L == GotoPoints(program, TopScope[1], TopScope[2])
          IN  /\ instruction_pointer' =
                    IF CellValue <= Cardinality(L)
                    THEN Nth(L, CellValue)
                    ELSE instruction_pointer + 1
              /\ UNCHANGED <<tape, data_pointer, readonly_cells, loop_scopes>>]_vars

\* with cell value 2, a goto has jumped over a nested scope's goto to the
\* second goto of its own scope
GotoJumpedToSecond ==
    /\ Running
    /\ run_program = NestedScopeProgram
    /\ last_char = "'"
    /\ CellValue = 2
    /\ instruction_pointer = 12

-----------------------------------------------------------------------------
(* C6: a call of a known function runs the body from offset 0 with an       *)
(* empty scope stack; when the body ends, the active text and the scope     *)
(* stack are the caller's as they were at the call and the instruction      *)
(* pointer is just past the call's terminator; tape, data pointer and       *)
(* read-only set are shared, never saved or restored.                       *)
CallFrameEffect ==
    [][/\ CallStep =>
            /\ program' = functions[CallName(Machine)]
            /\ instruction_pointer' = 0
            /\ loop_scopes' = <<>>
            /\ Len(frames') = Len(frames) + 1
            /\ frames'[Len(frames')].saved_program = program
            /\ frames'[Len(frames')].saved_ip = instruction_pointer
            /\ frames'[Len(frames')].saved_scopes = loop_scopes
            /\ UNCHANGED <<tape, data_pointer, readonly_cells>>
       /\ ReturnStep =>
            LET frame == frames[Len(frames)]
                terminator == Find(frame.saved_program, "=", frame.saved_ip + 2)
            IN  /\ program' = frame.saved_program
                /\ loop_scopes' = frame.saved_scopes
                /\ instruction_pointer' = terminator + 1
                /\ frames' = SubSeq(frames, 1, Len(frames) - 1)
                /\ UNCHANGED <<tape, data_pointer, readonly_cells>>]_vars

\* the caller, inside its scope, is back after a call whose body emptied a
\* cell of the shared tape
ReturnedIntoScope ==
    /\ Running
    /\ run_program = CallInLoopProgram
    /\ frames = <<>>
    /\ max_depth = 1
    /\ Len(loop_scopes) = 1
    /\ tape = <<0>>
    /\ CharAt(program, instruction_pointer - 1) = "="

-----------------------------------------------------------------------------
(* C7: function calls can nest: in some program whose functions come from   *)
(* inline definitions or imports, a function body dispatches a call to      *)
(* another function or to itself, so a call depth of 2 or more is reached.  *)

\* as stated, on the programs that define a function whose text calls
\* another function, or itself, and then call it: their runs reach depth 2
NestingReached ==
    (Finished /\ run_program \in {NestProgram, NestCalledProgram,
                                  RecursionProgram}) =>
        max_depth >= 2

HasSeparator(text) == \E i \in 1 .. Len(text) : text[i] = "@"

\* amended: no registered body holds the separator character, which every
\* call construct needs, so no body calls a function and the call depth
\* never exceeds 1
CallsNeverNest ==
    /\ Len(frames) <= 1
    /\ \A name \in DOMAIN functions : ~HasSeparator(functions[name])

\* the body registered for g, cut at the separator of the call it was
\* written with, has dispatched the "=" that is left of that call
CallInBodyCutShort ==
    /\ Running
    /\ run_program = NestCalledProgram
    /\ Len(frames) = 1
    /\ program = <<"=">>
    /\ last_char = "="

-----------------------------------------------------------------------------
(* C8: the insert instruction changes the tape only when the instruction    *)
(* dispatched immediately before it was a right-move; otherwise it reports  *)
(* an error, leaves tape, data pointer and read-only set unchanged and      *)
(* advances the instruction pointer by 1.                                   *)
InsertOnlyAfterRight ==
    [][(Dispatching({"\""}) /\ last_char # ">") =>
          /\ stderr' = Append(stderr, "insert_error")
          /\ instruction_pointer' = instruction_pointer + 1
          /\ UNCHANGED <<tape, data_pointer, readonly_cells>>]_vars

-----------------------------------------------------------------------------
(* C9: inserting a character that is no instruction (a space) at a position *)
(* outside a multi-character construct gives a program whose run ends with  *)
(* the same tape, data pointer, read-only set and output.                   *)

\* the loops of run() and call_function() on a machine, for at most `fuel`
\* instructions
RECURSIVE RunLoop(_, _)
RunLoop(s, fuel) ==
    IF AtEnd(s)
    THEN IF s.frames = <<>>
         THEN [done |-> TRUE, machine |-> finish_run(s)]
         ELSE RunLoop(return_from_call(s), fuel)
    ELSE IF fuel = 0
         THEN [done |-> FALSE, machine |-> s]
         ELSE RunLoop(execute_instruction(s), fuel - 1)

\* run(text) on an interpreter holding the function table fns, reading input
Outcome(text, input, fns) ==
    RunLoop([run([Constructed EXCEPT !.functions = fns], text)
                EXCEPT !.stdin = input], Fuel)

\* the positions of the program of the finished run that lie in none of the
\* constructs the run dispatched
InsideConstruct(pos) ==
    \E c \in constructs : c.depth = 0 /\ c.open < pos /\ pos <= c.close

OutsidePositions ==
    {pos \in 0 .. Len(run_program) : ~InsideConstruct(pos)}

\* the run of the program with a space inserted before offset pos ends as
\* the finished run did
SameResult(pos) ==
    LET other == Outcome(ListInsert(run_program, pos, " "), run_stdin,
                         run_functions)
    IN  /\ other.done
        /\ other.machine.tape = tape
        /\ other.machine.data_pointer = data_pointer
        /\ other.machine.readonly_cells = readonly_cells
        /\ other.machine.stdout = stdout

\* as stated: at every position outside a construct
FormattingNeverMatters ==
    Finished => \A pos \in OutsidePositions : SameResult(pos)

\* the space would separate a right-move or an unfinished "{" from what
\* follows it, or a scope opening from the goto that follows it
Separates(pos) ==
    \/ pos > 0 /\ CharAt(run_program, pos - 1) \in {">", "{"}
    \/ /\ pos > 0
       /\ pos < Len(run_program)
       /\ CharAt(run_program, pos - 1) = "/"
       /\ CharAt(run_program, pos) = "'"

\* amended: at every position outside a construct that is neither directly
\* after a right-move or "{" nor between a scope opening and a goto
FormattingMattersOnlyBetween ==
    Finished =>
        \A pos \in OutsidePositions : ~Separates(pos) => SameResult(pos)

\* a run that dispatched a construct, built a tape and wrote output has
\* finished, and a space inside its program leaves the result as it is
SpaceInsertedHarmlessly ==
    /\ Finished
    /\ constructs # {}
    /\ Len(tape) > 0
    /\ Len(stdout) > 1
    /\ \E pos \in OutsidePositions :
          /\ 0 < pos /\ pos < Len(run_program)
          /\ ~Separates(pos)
          /\ SameResult(pos)

-----------------------------------------------------------------------------
(* C10: an insert dispatched while the data pointer is on a read-only cell  *)
(* or off the tape leaves the tape and the read-only set unchanged.         *)

\* as stated
InsertNeedsWritableTarget ==
    [][(Dispatching({"\""}) /\ (~OnTape \/ data_pointer \in readonly_cells)) =>
          UNCHANGED <<tape, readonly_cells>>]_vars

\* amended: an insert that follows a right-move adds a zero cell also when
\* the data pointer is on a read-only cell or off the tape; the new cell is
\* under the data pointer afterwards, the other cells keep their values and
\* order, and the read-only indices at or after the new cell move up by 1
InsertIgnoresTarget ==
    [][(Dispatching({"\""}) /\ previous_was_right
           /\ (~OnTape \/ data_pointer \in readonly_cells)) =>
          /\ 0 <= data_pointer' /\ data_pointer' <= Len(tape)
          /\ tape' = ListInsert(tape, data_pointer', 0)
          /\ readonly_cells' =
                {IF i >= data_pointer' THEN i + 1 ELSE i : i \in readonly_cells}]_vars

\* an insert on a read-only cell has put a zero cell in front of it and the
\* protection has moved up with the cell
InsertedBeforeReadOnly ==
    /\ Running
    /\ last_char = "\""
    /\ stderr = <<>>
    /\ OnTape
    /\ tape[data_pointer + 1] = 0
    /\ data_pointer \notin readonly_cells
    /\ (data_pointer + 1) \in readonly_cells

-----------------------------------------------------------------------------
(* C11: structural edits renumber the read-only set to follow the cells.    *)
(* An insert that follows a right-move adds one zero cell at index k (0 at  *)
(* the before-first sentinel, the pointer when on the tape), maps every     *)
(* read-only index i >= k to i + 1 and keeps the others; at the after-last  *)
(* sentinel it appends and changes no read-only index.  A delete on an      *)
(* on-tape cell k that is not read-only removes cell k, maps every          *)
(* read-only index i > k to i - 1 and keeps those below k.  All other cells *)
(* keep their values and their order.                                       *)

\* a cell is inserted: the insert follows a right-move
InsertSucceeds == Dispatching({"\""}) /\ previous_was_right

\* a cell is deleted: the pointer is on a cell that is not read-only
DeleteSucceeds ==
    Dispatching({":"}) /\ OnTape /\ data_pointer \notin readonly_cells

AtBeforeFirst == Len(tape) > 0 /\ data_pointer = -1

AtAfterLast == Len(tape) > 0 /\ data_pointer >= Len(tape)

-----------------------------------------------------------------------------
(* C12: distribute on an on-tape cell i that is not read-only, holding v,   *)
(* sets cell i to 0, adds v to every other cell that is not read-only and   *)
(* leaves every read-only cell, the tape length, the data pointer and the   *)
(* read-only set unchanged; on a read-only cell or off the tape it changes  *)
(* nothing.                                                                 *)
DistributeEffect ==
    [][Dispatching({"&"}) =>
          /\ UNCHANGED <<data_pointer, readonly_cells>>
          /\ Len(tape') = Len(tape)
          /\ IF OnTape /\ data_pointer \notin readonly_cells
             THEN \A j \in 0 .. (Len(tape) - 1) :
                     tape'[j + 1] =
                        IF j = data_pointer THEN 0
                        ELSE IF j \in readonly_cells THEN tape[j + 1]
                        ELSE tape[j + 1] + CellValue
             ELSE tape' = tape]_vars

\* the 2 of cell 0 went to cell 2 and not to the read-only cell 1
DistributedPastReadOnly ==
    /\ Running
    /\ run_program = DistributeProgram
    /\ last_char = "&"
    /\ tape = <<0, 1, 3>>
    /\ readonly_cells = {1}
    /\ data_pointer = 0

-----------------------------------------------------------------------------
(* C13: each top-level run starts from an empty tape, data pointer 0, an    *)
(* empty read-only set and an empty scope stack whatever the previous run   *)
(* left behind, and leaves the function table untouched: a function         *)
(* registered during one run is still registered with the same body, and    *)
(* callable, in every later run on the same interpreter.                    *)

\* the step about to be taken enters run()
RunStep == runs' = runs + 1

\* the current run has dispatched no definition and no import so far
NothingRegisteredYet ==
    \A c \in constructs : c.kind \notin {"definition", "import"}

RunResetsAllButFunctions ==
    [][/\ RunStep =>
            /\ tape' = <<>>
            /\ data_pointer' = 0
            /\ readonly_cells' = {}
            /\ loop_scopes' = <<>>
            /\ functions' = functions
       /\ (Running /\ NothingRegisteredYet) => functions = run_functions
       /\ (CallStep /\ NothingRegisteredYet) =>
            /\ program' = run_functions[CallName(Machine)]
            /\ instruction_pointer' = 0]_vars

\* the second run, which defines nothing, has entered the body that an
\* earlier run registered for f, on the tape the run started with
EarlierFunctionCalled ==
    /\ runs = 2
    /\ run_program = CallEarlierProgram
    /\ frames # <<>>
    /\ program = <<">", "\"", "^">>
    /\ instruction_pointer = 0
    /\ tape = <<>>

-----------------------------------------------------------------------------
(* C14: the scope stack holds only currently-open scopes of the active      *)
(* text: whenever an instruction is about to be dispatched, every pair      *)
(* (start, end) on the stack has the scope-open character at start, the     *)
(* scope-close character at end, and start < instruction_pointer <= end.    *)
ScopesAreOpen ==
    (Running /\ ~AtEnd(Machine)) =>
        \A k \in 1 .. Len(loop_scopes) :
            /\ CharAt(program, loop_scopes[k][1]) = "/"
            /\ CharAt(program, loop_scopes[k][2]) = "\\"
            /\ loop_scopes[k][1] < instruction_pointer
            /\ instruction_pointer <= loop_scopes[k][2]

-----------------------------------------------------------------------------
(* C15: every cell of the tape is >= 0 in every reachable state: decrement  *)
(* on a cell holding 0 leaves it 0, numeric input of a negative number      *)
(* stores 0, and no other instruction produces a negative cell.             *)
CellsNeverNegative ==
    /\ \A i \in 1 .. Len(tape) : tape[i] >= 0
    /\ (Running /\ last_char = "v" /\ OnTape) => tape[data_pointer + 1] >= 0

\* the line -3 was read into a cell that held 2, which holds 0, and the
\* decrement that followed left it at 0
NegativeInputStoredZero ==
    /\ Running
    /\ run_program = NegativeInputProgram
    /\ run_stdin = << <<"-", "3">>, <<"x">> >>
    /\ stdin = << <<"x">> >>
    /\ last_char = "v"
    /\ tape = <<0>>

-----------------------------------------------------------------------------
(* C16: defining a function and then calling it leaves the function table   *)
(* entry for that name equal to the body that was registered: executing a   *)
(* call never rewrites any function body, and the table changes only        *)
(* through a definition or an import.                                       *)

\* the name of the function whose body is the active text
ReturningName ==
    LET frame == frames[Len(frames)]
    IN  Slice(frame.saved_program, frame.saved_ip + 2, frame.name_end)

\* the body that is ending has dispatched an import
ImportedInBody ==
    \E c \in constructs :
        c.kind = "import" /\ c.depth = Len(frames) /\ c.text = program

\* as stated: when a call ends, the entry of the called name is the body
\* that was entered
CallLeavesBody ==
    ReturnStep =>
        /\ ReturningName \in DOMAIN functions
        /\ functions[ReturningName] = program

\* amended: the steps that enter and leave a body never change the table,
\* the only steps that do are the definition and the import, wherever they
\* are dispatched, and when a call ends whose body dispatched no import the
\* entry of the called name is the body that was entered
TableChangesOnlyByRegistration ==
    [][/\ (functions' # functions) =>
            \/ Dispatching({"{"}) /\ IsDefinition(Machine)
            \/ Dispatching({"="}) /\ IsImport(Machine)
       /\ (CallStep \/ ReturnStep) => functions' = functions
       /\ (ReturnStep /\ ~ImportedInBody) =>
            /\ ReturningName \in DOMAIN functions
            /\ functions[ReturningName] = program]_vars

\* the second call of f ends with the body registered for f before the
\* first call
CalledTwiceSameBody ==
    /\ ReturnStep
    /\ run_program = CallProgram
    /\ frames[1].saved_ip > 10
    /\ functions = [n \in {<<"f">>} |-> <<">", "\"", "^">>]
    /\ program = functions[<<"f">>]

-----------------------------------------------------------------------------
(* C17: on a non-empty tape of length n the pointer moves form one cycle    *)
(* over the n + 2 positions -1, 0, ..., n: move_right from n wraps to -1,   *)
(* move_left from -1 wraps to n, each move undoes the other, and n + 2      *)
(* consecutive moves in one direction, and no fewer, return the pointer to  *)
(* where it started; on an empty tape both moves set the pointer to 0.      *)

\* m right-moves of the machine s
RECURSIVE RightMoves(_, _)
RightMoves(s, m) ==
    IF m = 0 THEN s ELSE RightMoves(move_data_pointer_right(s), m - 1)

\* m left-moves of the machine s
RECURSIVE LeftMoves(_, _)
LeftMoves(s, m) ==
    IF m = 0 THEN s ELSE LeftMoves(move_data_pointer_left(s), m - 1)

PointerMovesCycle ==
    LET n == Len(tape)
        s == Machine
        right == move_data_pointer_right(s)
        left == move_data_pointer_left(s)
    IN  /\ right = [s EXCEPT !.data_pointer = right.data_pointer]
        /\ left = [s EXCEPT !.data_pointer = left.data_pointer]
        /\ IF n = 0
           THEN right.data_pointer = 0 /\ left.data_pointer = 0
           ELSE /\ right.data_pointer =
                      IF data_pointer = n THEN -1 ELSE data_pointer + 1
                /\ left.data_pointer =
                      IF data_pointer = -1 THEN n ELSE data_pointer - 1
                /\ move_data_pointer_left(right) = s
                /\ move_data_pointer_right(left) = s
                /\ RightMoves(s, n + 2) = s
                /\ LeftMoves(s, n + 2) = s
                /\ \A m \in 1 .. (n + 1) :
                      RightMoves(s, m) # s /\ LeftMoves(s, m) # s

\* a left-move at the before-first sentinel has wrapped to the after-last
\* one
WrappedLeftToAfterLast ==
    /\ Running
    /\ last_char = "<"
    /\ Len(tape) > 0
    /\ data_pointer = Len(tape)

-----------------------------------------------------------------------------
(* C18: dispatching the scope-open character at offset p pushes exactly     *)
(* (p, q), where q is the offset of the closing character that returns the  *)
(* nesting depth to 0 when scanning forward from p + 1, and pushes nothing  *)
(* when the text ends first; dispatching the closing character removes      *)
(* exactly the top entry of a non-empty stack, whether or not that entry    *)
(* ends at this character, and does nothing on an empty stack; both advance *)
(* the instruction pointer by 1 and change neither tape nor data pointer.   *)

\* the closing characters after p that have as many openings as closings
\* between p and them: the first one returns the depth to 0
ClosingsOf(text, p) ==
    {q \in (p + 1) .. (Len(text) - 1) :
        /\ CharAt(text, q) = "\\"
        /\ Count(text, "/", p + 1, q - 1) = Count(text, "\\", p + 1, q - 1)}

ScopePushAndPop ==
    [][/\ Dispatching({"/"}) =>
            LET closings == ClosingsOf(program, instruction_pointer)
            IN  loop_scopes' =
                   IF closings = {} THEN loop_scopes
                   ELSE Append(loop_scopes,
                               <<instruction_pointer, Min(closings)>>)
       /\ Dispatching({"\\"}) =>
            loop_scopes' =
               IF loop_scopes = <<>> THEN <<>>
               ELSE SubSeq(loop_scopes, 1, Len(loop_scopes) - 1)
       /\ Dispatching({"/", "\\"}) =>
            /\ instruction_pointer' = instruction_pointer + 1
            /\ UNCHANGED <<tape, data_pointer>>]_vars

\* the closing character at offset 8 has removed the entry (3, 6) that a
\* goto had left on top of (0, 8)
PoppedUnpairedScope ==
    /\ Running
    /\ run_program = PopStaleProgram
    /\ last_char = "\\"
    /\ instruction_pointer = 9
    /\ loop_scopes = << <<0, 8>> >>

-----------------------------------------------------------------------------
(* C19: a goto whose immediately preceding character in the active text is  *)
(* the scope-open character advances the instruction pointer by exactly 1   *)
(* and changes nothing else, for every cell value and every scope stack;    *)
(* the check comes before the exit at value 0 and before the jump to the    *)
(* v-th goto point.                                                         *)
GotoEscapeOnlyAdvances ==
    [][(Dispatching({"'"}) /\ GotoEscape) =>
          /\ instruction_pointer' = instruction_pointer + 1
          /\ UNCHANGED <<program, tape, data_pointer, readonly_cells,
                         loop_scopes, functions, previous_was_right, frames,
                         stdin, stdout, stderr>>]_vars

\* with cell value 1 and its scope on the stack, the goto directly after
\* the scope opening has advanced instead of jumping to the first goto
\* point, which is itself
EscapedWithValueOne ==
    /\ Running
    /\ run_program = LoopProgram
    /\ last_char = "'"
    /\ instruction_pointer = 5
    /\ tape = <<1>>
    /\ loop_scopes = << <<3, 7>> >>

-----------------------------------------------------------------------------
(* C20: every dispatch step other than a goto strictly increases the        *)
(* instruction pointer of the active text, so a run terminates whenever     *)
(* neither the program nor any registered function body contains the goto   *)
(* character.                                                               *)

GotoFree(text) == \A i \in 1 .. Len(text) : text[i] # "'"

\* neither the text of the run nor a body of the table holds a goto
NoGotoAnywhere ==
    /\ GotoFree(run_program)
    /\ \A n \in DOMAIN functions : GotoFree(functions[n])

\* a step that is no goto leaves the instruction pointer further in the
\* same text; a call, which suspends its text for the body, leaves it past
\* the call construct when the body has ended
StepAdvances ==
    /\ (Dispatching(Characters \ {"'"}) /\ ~CallStep) =>
          /\ program' = program
          /\ instruction_pointer' > instruction_pointer
    /\ CallStep =>
          /\ frames'[Len(frames')].saved_program = program
          /\ frames'[Len(frames')].saved_ip = instruction_pointer
    /\ ReturnStep =>
          /\ program' = frames[Len(frames)].saved_program
          /\ instruction_pointer' > frames[Len(frames)].saved_ip

GotoFreeRunsEnd ==
    /\ [][StepAdvances]_vars
    /\ (Running /\ NoGotoAnywhere) ~> Finished

\* a run without goto that called a function twice has ended
CallingRunEnded ==
    /\ Finished
    /\ run_program = CallProgram
    /\ max_depth = 1
    /\ Len(stdout) = 3

-----------------------------------------------------------------------------
(* C21: in every reachable state the read-only set contains only indices of *)
(* existing cells (0 <= i < len(tape) for every element i); in particular   *)
(* it is empty whenever the tape is empty.                                  *)
ReadOnlyWithinTape ==
    /\ \A i \in readonly_cells : 0 <= i /\ i < Len(tape)
    /\ (tape = <<>> => readonly_cells = {})

\* the read-only cell 0 of [1, 0] was released and deleted, and the cell
\* that took index 0 has been made read-only
ProtectedAfterDelete ==
    /\ Running
    /\ run_program = ToggleDeleteProgram
    /\ last_char = "%"
    /\ tape = <<0>>
    /\ readonly_cells = {0}
    /\ data_pointer = 0

====
